---------------------------- MODULE Spec2Model ----------------------------
(***************************************************************************)
(* Record store, mutation service and audit log of the activity register   *)
(* (src/db.py), with the two administrative operations modelled both as    *)
(* whole calls (Spec) and as the two steps the sqlite3 connection really   *)
(* takes (ConcSpec): an autocommit SELECT, then one write transaction.     *)
(* ReadSpec adds the range query and the matrix export, AppSpec the        *)
(* sidebar's is_admin in front of the admin tab (src/app.py).             *)
(***************************************************************************)
EXTENDS Integers, Sequences, FiniteSets, TLC

(***************************************************************************)
(* Bounds of the model.                                                    *)
(***************************************************************************)
MaxOps == 3      \* calls completed in one behaviour (also the clock's range)
MaxId == 3       \* ids AUTOINCREMENT may hand out
MaxDate == 2     \* calendar dates 1..MaxDate
MaxBatch == 2    \* records in one createBatch / changes in one update

(***************************************************************************)
(* Values.  A date is the ordinal of a calendar day, all of them days of   *)
(* one month, so that date d is the d-th of the month; NULL in a date or   *)
(* timestamp column is NoDate, NULL / a missing key in a text column is    *)
(* Null.                                                                   *)
(***************************************************************************)
NoDate == 0
Null == "NULL"
Dates == 1..MaxDate
Specialists == {"Ana", "Luis"}
Activities == {"Informe", "Acta"}
Units == {"Documento", "Reunion"}
Completed == "check"
Missed == "cross"
StatusTokens == {"", Completed, Missed}
Actors == {"admin1"}
Reasons == {"client request"}
Sessions == {"s1", "s2"}

VARIABLES
    scheduled_activities,  \* table: id -> row
    sqlite_sequence,       \* AUTOINCREMENT's high-water mark for the table
    audit_log,             \* table audit_log, in id order
    now,                   \* the clock _now_iso() reads; one tick per call
    ret,                   \* what the most recent call returned
    last,                  \* the most recent call: its name and arguments
    pc,                    \* per session: where its admin call stands
    loc,                   \* per session: the call's arguments and its SELECT result
    admin_ok,              \* history: admin calls that returned True
    created,               \* history: id -> scheduled_date it was created with
    df,                    \* the rows the most recent get_month_records call returned
    report,                \* the sheet the most recent export call returned
    access                 \* the configured ADMIN_CODE and the sidebar's role and code

vars == <<scheduled_activities, sqlite_sequence, audit_log, now, ret, last,
          pc, loc, admin_ok, created, df, report, access>>

store == <<scheduled_activities, sqlite_sequence, audit_log>>

(***************************************************************************)
(* Helpers.                                                                *)
(***************************************************************************)
Max(a, b) == IF a >= b THEN a ELSE b

SetMax(S) == IF S = {} THEN 0 ELSE CHOOSE x \in S : \A y \in S : y <= x

SetMin(S) == CHOOSE x \in S : \A y \in S : x <= y

IsPrefix(s, t) == Len(s) <= Len(t) /\ SubSeq(t, 1, Len(s)) = s

SeqsUpTo(S, n) == UNION {[1..k -> S] : k \in 0..n}

\* python: x or dflt, for a value read with dict.get(key, dflt)
OrDefault(x, dflt) == IF x = Null \/ x = "" THEN dflt ELSE x


(***************************************************************************)
(* Inputs the callers are drawn from.                                      *)
(***************************************************************************)
Dash == "--"     \* the em-dash placeholder of the source

\* One dict of add_scheduled_records' list, as the registration form builds
\* it (app.py 130-141).  Null in a field stands for a key that is missing
\* or None.
Record(s, d) ==
    [specialist |-> s, activity |-> "Informe", unit |-> "Documento",
     scheduled_date |-> d, status |-> "", notes |-> "", created_by |-> "ana"]

RECURSIVE Ascending(_)
Ascending(S) ==
    IF S = {} THEN <<>>
    ELSE LET m == CHOOSE x \in S : \A y \in S : x <= y
         IN  <<m>> \o Ascending(S \ {m})

\* The dates one submission expands into: a date or an ascending range.
DateLists ==
    {Ascending(S) : S \in {T \in SUBSET Dates : T # {} /\ Cardinality(T) <= MaxBatch}}

\* str.strip() on the texts of the model: " " and "s3cret " have blanks.
Strip(s) == IF s = " " THEN "" ELSE IF s = "s3cret " THEN "s3cret" ELSE s

\* What the registration form holds when it is submitted: especialista,
\* actividad, unidad, unidad_otro, and the dates it expands into.
Forms ==
    {<<"Ana", "Informe", "Documento", "", ds>> : ds \in DateLists}
    \cup {<<"Luis", "Acta", "Documento", "", <<d>>>> : d \in Dates}
    \cup {<<"Ana", "Acta", "Otro", "Reunion", <<d>>>> : d \in Dates}
    \cup {<<" ", "Informe", "Documento", "", <<1>>>>,
          <<"Ana", "Informe", "Otro", "", <<1>>>>}

\* app.py 126: the form's own check of what was typed.
FormAccepts(f) == f[1] # "" /\ f[2] # "" /\ (f[3] # "" \/ f[4] # "") /\ f[5] # <<>>

\* app.py 129-141: one dict per date.
FormRecords(f) ==
    [k \in 1..Len(f[5]) |->
        [Record(Strip(f[1]), f[5][k]) EXCEPT
            !.activity = Strip(f[2]),
            !.unit = IF f[3] = "Otro" THEN Strip(f[4]) ELSE f[3]]]

\* One submission: the same specialist, activity and unit on each date.
ValidBatches == {FormRecords(f) : f \in {g \in Forms : FormAccepts(g)}}

\* A list whose k-th dict lacks its specialist.
FailingBatches ==
    {[b EXCEPT ![k].specialist = Null] :
        b \in {v \in ValidBatches : v[1].specialist = "Ana" /\ v[1].activity = "Informe"
                                       /\ v[1].unit = "Documento"},
        k \in 1..MaxBatch}
    \ ValidBatches

Batches == {<<>>} \cup ValidBatches \cup FailingBatches

\* One dict of update_records_status_and_notes' list.  scheduled_date is a
\* key a caller may leave in the dict; the UPDATE does not read it.
\* The grid of the status tab offers the three tokens; the function takes
\* whatever text the dict holds, "done" here.
Changes ==
    {[id |-> i, status |-> st, notes |-> n, actor |-> "ana", scheduled_date |-> d] :
        i \in 1..MaxId, st \in {Completed, Missed}, n \in {"n"}, d \in {MaxDate}}
    \cup {[id |-> 1, status |-> "done", notes |-> "n", actor |-> "ana",
           scheduled_date |-> MaxDate]}

\* What the admin tab holds when a button is pressed: the name typed in the
\* sidebar and the reason typed in the tab.
AdminForms == {<<"admin1", "client request">>, <<" ", "">>}

\* app.py 284: actor_name.strip() or "ADMIN"
ActorOrAdmin(actor_name) == OrDefault(Strip(actor_name), "ADMIN")

\* Mutant: the reason goes to the call as typed.
ReasonOrDash_asTyped(motivo) == Strip(motivo)

\* app.py 285: motivo.strip() or the dash
ReasonOrDash(motivo) == OrDefault(Strip(motivo), Dash)

ChangeLists == SeqsUpTo(Changes, 1) \cup
    {<<c1, c2>> : c1 \in {c \in Changes : c.status = Completed},
                  c2 \in {c \in Changes : c.status = Missed /\ c.id = 1}}

(***************************************************************************)
(* Table rows.                                                             *)
(***************************************************************************)
\* Mutant: INTEGER PRIMARY KEY without AUTOINCREMENT, which reuses the id of
\* a deleted last row.
NextRowId_reuses(tbl, seq) == SetMax(DOMAIN tbl) + 1

\* Mutant: the id is the number of rows the table holds, plus one.
NextRowId_fromCount(tbl, seq) == Cardinality(DOMAIN tbl) + 1

\* INTEGER PRIMARY KEY AUTOINCREMENT: one more than the largest id the table
\* has ever held (sqlite_sequence), never a reused one.
NextRowId(tbl, seq) == Max(seq, SetMax(DOMAIN tbl)) + 1

\* A NOT NULL column given None, or r["key"] on a missing key.
RowFails(r) ==
    \/ r.specialist = Null
    \/ r.activity = Null
    \/ r.unit = Null
    \/ r.scheduled_date = NoDate

NewRow(r, t) ==
    [specialist |-> r.specialist, activity |-> r.activity, unit |-> r.unit,
     scheduled_date |-> r.scheduled_date,
     status |-> OrDefault(r.status, ""),
     notes |-> OrDefault(r.notes, ""),
     created_at |-> t,
     created_by |-> OrDefault(r.created_by, Dash),
     updated_at |-> NoDate, updated_by |-> Null]

\* The INSERT of one record inside the open transaction.
InsertRow(db, r, t) ==
    LET rid == NextRowId(db.tbl, db.seq)
    IN  [ok |-> TRUE,
         tbl |-> [i \in DOMAIN db.tbl \cup {rid} |->
                    IF i = rid THEN NewRow(r, t) ELSE db.tbl[i]],
         seq |-> rid]

\* Mutant: the loop leaves after its first record.
InsertAll_onlyFirst(db, recs, t) ==
    IF recs = <<>> THEN db
    ELSE IF RowFails(Head(recs)) THEN [db EXCEPT !.ok = FALSE]
    ELSE InsertRow(db, Head(recs), t)

\* The for loop of add_scheduled_records: stops at the first record that
\* raises, with the rows inserted so far still in the open transaction.
RECURSIVE InsertAll(_, _, _)
InsertAll(db, recs, t) ==
    IF recs = <<>> THEN db
    ELSE IF RowFails(Head(recs)) THEN [db EXCEPT !.ok = FALSE]
    ELSE InsertAll(InsertRow(db, Head(recs), t), Tail(recs), t)

\* Mutant: the rows inserted before the failing one are committed.
CommitOrRollback_commits(before, after) == after

\* with get_conn() as conn: commit when the block ends, roll back when it raises.
CommitOrRollback(before, after) == IF after.ok THEN after ELSE before

(***************************************************************************)
(* get_month_records.                                                      *)
(***************************************************************************)
\* SQLite's BINARY collation on the text values of the model.
Collation == <<"", " ", "--", "Acta", "Ana", "Documento", "Informe", "Luis", "NULL",
               "Otro", "Reunion">>

Rank(s) == CHOOSE i \in 1..Len(Collation) : Collation[i] = s

\* date(scheduled_date): the calendar date a stored text denotes, NULL when
\* it denotes none.
SqlDate(x) == IF x \in Dates THEN x ELSE NoDate

\* ORDER BY date(scheduled_date), specialist, activity; rows equal on all
\* three come out in rowid order.
RowBefore(tbl, i, j) ==
    LET a == tbl[i]
        b == tbl[j]
    IN  \/ SqlDate(a.scheduled_date) < SqlDate(b.scheduled_date)
        \/ /\ SqlDate(a.scheduled_date) = SqlDate(b.scheduled_date)
           /\ \/ Rank(a.specialist) < Rank(b.specialist)
              \/ /\ a.specialist = b.specialist
                 /\ \/ Rank(a.activity) < Rank(b.activity)
                    \/ a.activity = b.activity /\ i < j

RECURSIVE OrderBy(_, _)
OrderBy(tbl, ids) ==
    IF ids = {} THEN <<>>
    ELSE LET m == CHOOSE i \in ids : \A j \in ids \ {i} : RowBefore(tbl, i, j)
         IN  <<m>> \o OrderBy(tbl, ids \ {m})

\* Mutant: the range leaves its last day out.
Matches_exclusive(row, date_from, date_to, specialist) ==
    /\ SqlDate(row.scheduled_date) # NoDate
    /\ SqlDate(row.scheduled_date) >= date_from
    /\ SqlDate(row.scheduled_date) < date_to
    /\ (specialist # Null /\ specialist # "") => row.specialist = specialist

\* The WHERE clause: both ends inclusive; the specialist test only when a
\* non-empty filter is given.
Matches(row, date_from, date_to, specialist) ==
    /\ SqlDate(row.scheduled_date) # NoDate
    /\ SqlDate(row.scheduled_date) >= date_from
    /\ SqlDate(row.scheduled_date) <= date_to
    /\ (specialist # Null /\ specialist # "") => row.specialist = specialist

\* The SELECT list.
Selected(tbl, i) ==
    [id |-> i, specialist |-> tbl[i].specialist, activity |-> tbl[i].activity,
     unit |-> tbl[i].unit, scheduled_date |-> SqlDate(tbl[i].scheduled_date),
     status |-> tbl[i].status, notes |-> tbl[i].notes,
     updated_at |-> tbl[i].updated_at]

get_month_records(tbl, date_from, date_to, specialist) ==
    LET ids == {i \in DOMAIN tbl : Matches(tbl[i], date_from, date_to, specialist)}
        ord == OrderBy(tbl, ids)
    IN  [k \in 1..Len(ord) |-> Selected(tbl, ord[k])]

\* Every (from, to, filter) a caller can ask for.
Queries == Dates \X Dates \X (Specialists \cup {Null})

QueryIds(tbl, q) ==
    LET res == get_month_records(tbl, q[1], q[2], q[3])
    IN  {res[k].id : k \in 1..Len(res)}

(***************************************************************************)
(* The statements of the mutation service.                                 *)
(***************************************************************************)
\* Mutant: the UPDATE also stamps created_at.
UpdateStatusNotes_restamps(tbl, ch, t) ==
    IF ch.id \in DOMAIN tbl
    THEN [tbl EXCEPT ![ch.id] =
            [@ EXCEPT !.status = OrDefault(ch.status, ""),
                      !.notes = OrDefault(ch.notes, ""),
                      !.created_at = t,
                      !.updated_at = t,
                      !.updated_by = OrDefault(ch.actor, Dash)]]
    ELSE tbl

\* Mutant: the UPDATE also writes the date the change dict carries.
UpdateStatusNotes_writesDate(tbl, ch, t) ==
    IF ch.id \in DOMAIN tbl
    THEN [tbl EXCEPT ![ch.id] =
            [@ EXCEPT !.status = OrDefault(ch.status, ""),
                      !.notes = OrDefault(ch.notes, ""),
                      !.scheduled_date = ch.scheduled_date,
                      !.updated_at = t,
                      !.updated_by = OrDefault(ch.actor, Dash)]]
    ELSE tbl

\* UPDATE ... SET status, notes, updated_at, updated_by WHERE id = ?
UpdateStatusNotes(tbl, ch, t) ==
    IF ch.id \in DOMAIN tbl
    THEN [tbl EXCEPT ![ch.id] =
            [@ EXCEPT !.status = OrDefault(ch.status, ""),
                      !.notes = OrDefault(ch.notes, ""),
                      !.updated_at = t,
                      !.updated_by = OrDefault(ch.actor, Dash)]]
    ELSE tbl

\* The for loop of update_records_status_and_notes.
RECURSIVE UpdateAll(_, _, _)
UpdateAll(tbl, changes, t) ==
    IF changes = <<>> THEN tbl
    ELSE UpdateAll(UpdateStatusNotes(tbl, Head(changes), t), Tail(changes), t)

\* Mutant: the SELECT has no WHERE clause, fetchone() takes the first row.
SelectScheduledDate_firstRow(tbl, record_id) ==
    IF DOMAIN tbl = {} THEN NoDate ELSE tbl[SetMin(DOMAIN tbl)].scheduled_date

\* SELECT scheduled_date ... WHERE id = ?, fetchone(): NoDate when no row.
SelectScheduledDate(tbl, record_id) ==
    IF record_id \in DOMAIN tbl THEN tbl[record_id].scheduled_date ELSE NoDate

\* Mutant: the UPDATE writes the date and leaves updated_at / updated_by.
UpdateScheduledDate_unstamped(tbl, record_id, new_date, actor, t) ==
    IF record_id \in DOMAIN tbl
    THEN [tbl EXCEPT ![record_id] = [@ EXCEPT !.scheduled_date = new_date]]
    ELSE tbl

\* Mutant: the UPDATE refreshes updated_at / updated_by and leaves the date.
UpdateScheduledDate_keepsDate(tbl, record_id, new_date, actor, t) ==
    IF record_id \in DOMAIN tbl
    THEN [tbl EXCEPT ![record_id] = [@ EXCEPT !.updated_at = t, !.updated_by = actor]]
    ELSE tbl

\* UPDATE ... SET scheduled_date, updated_at, updated_by WHERE id = ?
UpdateScheduledDate(tbl, record_id, new_date, actor, t) ==
    IF record_id \in DOMAIN tbl
    THEN [tbl EXCEPT ![record_id] =
            [@ EXCEPT !.scheduled_date = new_date,
                      !.updated_at = t,
                      !.updated_by = actor]]
    ELSE tbl

\* Mutant: the DELETE has no WHERE clause.
DeleteRow_all(tbl, record_id) == [i \in {} |-> tbl[i]]

\* Mutant: the DELETE matches no row.
DeleteRow_keeps(tbl, record_id) == tbl

\* DELETE FROM scheduled_activities WHERE id = ?
DeleteRow(tbl, record_id) == [i \in DOMAIN tbl \ {record_id} |-> tbl[i]]

\* Mutant: the audit INSERT is missing.
InsertAudit_dropped(log, action, record_id, old, new, actor, reason, t) == log

\* Mutant: INSERT OR REPLACE keyed by the record, which drops the record's
\* earlier entries.
InsertAudit_replacing(log, action, record_id, old, new, actor, reason, t) ==
    Append(SelectSeq(log, LAMBDA e : e.record_id # record_id),
           [action |-> action, record_id |-> record_id,
            old_scheduled_date |-> old, new_scheduled_date |-> new,
            actor |-> actor, reason |-> reason, ts |-> t])

\* INSERT INTO audit_log (...) VALUES (...)
InsertAudit(log, action, record_id, old, new, actor, reason, t) ==
    Append(log, [action |-> action, record_id |-> record_id,
                 old_scheduled_date |-> old, new_scheduled_date |-> new,
                 actor |-> actor, reason |-> reason, ts |-> t])

(***************************************************************************)
(* State after init_db() on a fresh database file.                         *)
(***************************************************************************)
Call(op, record_id, new_date, actor, reason, list) ==
    [op |-> op, record_id |-> record_id, new_date |-> new_date,
     actor |-> actor, reason |-> reason, list |-> list]

\* No workbook.
NoReport == [A1 |-> Null, labels |-> <<>>, days |-> <<>>, rows |-> <<>>]

NoArgs == [record_id |-> 0, new_date |-> NoDate, actor |-> Null,
           reason |-> Null, old |-> NoDate]

\* python: a or b
Or(a, b) == IF a = Null \/ a = "" THEN b ELSE a

\* Mutant: whatever is configured is compared, an empty code too.
verify_admin_anySecret(code, secrets_toml, env) ==
    code = Or(secrets_toml, env)

\* app.py 37-39: get_admin_code() is the ADMIN_CODE of the secrets file,
\* None when there is none.
verify_admin(code, secrets_toml, env) ==
    LET secret == Or(secrets_toml, env)
    IN  secret # Null /\ secret # "" /\ code = secret

\* app.py 46-54: the sidebar's is_admin.
is_admin(a) ==
    IF a.role = "Administrador"
    THEN IF a.code # "" THEN verify_admin(Strip(a.code), a.secrets_toml, a.env) ELSE FALSE
    ELSE FALSE

Roles == {"Especialista", "Administrador"}
Codes == {"", " ", "s3cret", "s3cret ", "guess"}

\* ADMIN_CODE in the secrets file and in the environment: neither set, both
\* empty, only the second holding a code, the first holding the code.
Configs == {<<Null, Null>>, <<"", "">>, <<"", "s3cret">>, <<"s3cret", "guess">>}

\* The session the admin tab's calls are made from when only the calls
\* are looked at.
Granted == [secrets_toml |-> "s3cret", env |-> Null, role |-> "Administrador",
            code |-> "s3cret"]

Init ==
    /\ access = Granted
    /\ scheduled_activities = <<>>
    /\ sqlite_sequence = 0
    /\ audit_log = <<>>
    /\ now = 0
    /\ ret = "None"
    /\ last = Call("init_db", 0, NoDate, Null, Null, <<>>)
    /\ pc = [s \in Sessions |-> "idle"]
    /\ loc = [s \in Sessions |-> NoArgs]
    /\ admin_ok = 0
    /\ created = <<>>
    /\ df = <<>>
    /\ report = NoReport

InFlight == Cardinality({s \in Sessions : pc[s] # "idle"})

\* A call may start while the behaviour has room for it to complete.
MayStart == now + InFlight < MaxOps

AdminOps == {"adminRescheduleDate", "adminDelete"}

\* The call returns r: the clock has moved on and the call is the latest.
Returns(call, r) ==
    /\ now' = now + 1
    /\ last' = call
    /\ ret' = r
    /\ admin_ok' = IF call.op \in AdminOps /\ r = "True" THEN admin_ok + 1 ELSE admin_ok
    /\ df' = <<>>
    /\ report' = NoReport
    /\ access' = access

(***************************************************************************)
(* createBatch.                                                            *)
(***************************************************************************)
add_scheduled_records(records) ==
    /\ MayStart
    /\ LET before == [ok |-> TRUE, tbl |-> scheduled_activities,
                      seq |-> sqlite_sequence]
           after == InsertAll(before, records, now + 1)
           db == CommitOrRollback(before, after)
       IN  /\ after.seq <= MaxId
           /\ scheduled_activities' = db.tbl
           /\ sqlite_sequence' = db.seq
           /\ created' = [i \in DOMAIN created \cup DOMAIN db.tbl |->
                            IF i \in DOMAIN created THEN created[i]
                            ELSE db.tbl[i].scheduled_date]
           /\ Returns(Call("createBatch", 0, NoDate, Null, Null, records),
                      IF after.ok THEN "None" ELSE "StorageError")
    /\ UNCHANGED <<audit_log, pc, loc>>

(***************************************************************************)
(* updateStatusAndNotes.                                                   *)
(***************************************************************************)
update_records_status_and_notes(changes) ==
    /\ MayStart
    /\ scheduled_activities' = UpdateAll(scheduled_activities, changes, now + 1)
    /\ Returns(Call("updateStatusAndNotes", 0, NoDate, Null, Null, changes), "None")
    /\ UNCHANGED <<sqlite_sequence, audit_log, pc, loc, created>>

(***************************************************************************)
(* queryRange.  A read: it takes no timestamp and writes nothing.          *)
(***************************************************************************)
\* The (from, to, filter) the status tab asks for in the model.
Asked == {<<1, MaxDate, "Ana">>}

query_range(q) ==
    /\ df' = get_month_records(scheduled_activities, q[1], q[2], q[3])
    /\ last' = Call("queryRange", 0, NoDate, Null, Null, <<q>>)
    /\ ret' = "DataFrame"
    /\ report' = NoReport
    /\ UNCHANGED <<store, now, pc, loc, admin_ok, created, access>>

(***************************************************************************)
(* exportMatrix: export_month_matrix_xlsx_bytes.                           *)
(***************************************************************************)
NoData == "Sin datos para el rango seleccionado"
Title == "Matriz mensual"
Headers == <<"Especialista", "Actividad", "Unidad de medida">>

\* str() of the small numbers of the model.
Digits == <<"0", "1", "2", "3", "4", "5", "6", "7", "8", "9">>

Str(n) == Digits[n + 1]

\* pd.to_datetime(scheduled_date).dt.day
Day(d) == d

Group(r) == <<r.specialist, r.activity, r.unit>>

\* The order pandas sorts the index keys in.
GroupBefore(g, h) ==
    \/ Rank(g[1]) < Rank(h[1])
    \/ g[1] = h[1] /\ Rank(g[2]) < Rank(h[2])
    \/ g[1] = h[1] /\ g[2] = h[2] /\ Rank(g[3]) < Rank(h[3])

RECURSIVE SortGroups(_)
SortGroups(G) ==
    IF G = {} THEN <<>>
    ELSE LET m == CHOOSE g \in G : \A h \in G \ {g} : GroupBefore(g, h)
         IN  <<m>> \o SortGroups(G \ {m})

\* aggfunc="first", fill_value="": the status of the first row of the frame
\* that has this group and day, "" when the frame has none.
First(frame, g, d) ==
    LET hits == {k \in 1..Len(frame) : Group(frame[k]) = g /\ Day(frame[k].scheduled_date) = d}
    IN  IF hits = {} THEN "" ELSE frame[SetMin(hits)].status

\* df.pivot_table(index=[specialist, activity, unit], columns="day",
\* values="status", aggfunc="first", fill_value="").reset_index(): the
\* column labels, and one sequence of values per index key.
pivot_table(frame) ==
    LET groups == SortGroups({Group(frame[k]) : k \in 1..Len(frame)})
        days == Ascending({Day(frame[k].scheduled_date) : k \in 1..Len(frame)})
    IN  [columns |-> <<"specialist", "activity", "unit">>
                        \o [j \in 1..Len(days) |-> Str(days[j])],
         values |-> [i \in 1..Len(groups) |->
                       groups[i] \o [j \in 1..Len(days) |-> First(frame, groups[i], days[j])]]]

\* str.isidentifier() on a column label: a label of digits is none.
IsIdentifier(label) == \A n \in 1..Len(Digits) : label # Digits[n]

\* namedtuple(..., rename=True) under itertuples: a label that is no
\* identifier becomes the field's position behind an underscore.
FieldName(label, index) == IF IsIdentifier(label) THEN label ELSE "_" \o Str(index)

\* pivot.itertuples(index=False): per row, field name -> value.
itertuples(pivot) ==
    LET names == [j \in 1..Len(pivot.columns) |-> FieldName(pivot.columns[j], j - 1)]
    IN  [i \in 1..Len(pivot.values) |->
           [f \in {names[j] : j \in 1..Len(names)} |->
              pivot.values[i][CHOOSE j \in 1..Len(names) : names[j] = f]]]

getattr(row, name, dflt) == IF name \in DOMAIN row THEN row[name] ELSE dflt

\* Mutant: one header cell per day the frame has a record on.
DayColumns_present(frame, max_day) ==
    Ascending({Day(frame[k].scheduled_date) : k \in 1..Len(frame)})

\* for d in range(1, max_day + 1): the header cell of day d.
DayColumns(frame, max_day) == [d \in 1..max_day |-> d]

\* Mutant: the frame is never taken for empty.
Empty_never(frame) == FALSE

\* df.empty
Empty(frame) == frame = <<>>

\* The sheet "Matriz": cell A1, the header row (its three labels and its
\* day cells) and the data rows under it.
Sheet(frame, month_last) ==
    IF Empty(frame)
    THEN [A1 |-> NoData, labels |-> <<>>, days |-> <<>>, rows |-> <<>>]
    ELSE LET max_day == Day(month_last)
             tuples == itertuples(pivot_table(frame))
         IN  [A1 |-> Title,
              labels |-> Headers,
              days |-> DayColumns(frame, max_day),
              rows |-> [i \in 1..Len(tuples) |->
                          [specialist |-> tuples[i]["specialist"],
                           activity |-> tuples[i]["activity"],
                           unit |-> tuples[i]["unit"],
                           cells |-> [d \in 1..max_day |->
                                        getattr(tuples[i], Str(d), "")]]]]

\* The (month_first, month_last, filter) the export tab asks for in the model.
Exported == {<<1, MaxDate, Null>>, <<1, 1, "Luis">>}

export_month_matrix_xlsx_bytes(q) ==
    /\ df' = get_month_records(scheduled_activities, q[1], q[2], q[3])
    /\ report' = Sheet(df', q[2])
    /\ last' = Call("exportMatrix", 0, NoDate, Null, Null, <<q>>)
    /\ ret' = "bytes"
    /\ UNCHANGED <<store, now, pc, loc, admin_ok, created, access>>

(***************************************************************************)
(* adminRescheduleDate and adminDelete.                                    *)
(***************************************************************************)
\* Mutant: the audit entry is written before the row is looked up.
ReturnFalse_audited(call) ==
    /\ Returns(call, "False")
    /\ audit_log' = Append(audit_log,
          [action |-> "UPDATE_DATE", record_id |-> call.record_id,
           old_scheduled_date |-> NoDate, new_scheduled_date |-> call.new_date,
           actor |-> call.actor, reason |-> call.reason, ts |-> now + 1])
    /\ UNCHANGED <<scheduled_activities, sqlite_sequence, created>>

\* if not row: return False
ReturnFalse(call) ==
    /\ Returns(call, "False")
    /\ UNCHANGED <<scheduled_activities, sqlite_sequence, audit_log, created>>

\* db.py 118-126: the UPDATE, the audit INSERT and the commit, given the
\* old date the SELECT returned.
RescheduleWrite(record_id, new_date, actor, reason, old) ==
    /\ scheduled_activities' =
          UpdateScheduledDate(scheduled_activities, record_id, new_date, actor, now + 1)
    /\ audit_log' = InsertAudit(audit_log, "UPDATE_DATE", record_id, old, new_date,
                                actor, reason, now + 1)
    /\ Returns(Call("adminRescheduleDate", record_id, new_date, actor, reason, <<>>),
               "True")
    /\ UNCHANGED <<sqlite_sequence, created>>

\* db.py 133-140: the DELETE, the audit INSERT and the commit.
DeleteWrite(record_id, actor, reason, old) ==
    /\ scheduled_activities' = DeleteRow(scheduled_activities, record_id)
    /\ audit_log' = InsertAudit(audit_log, "DELETE", record_id, old, NoDate,
                                actor, reason, now + 1)
    /\ Returns(Call("adminDelete", record_id, NoDate, actor, reason, <<>>), "True")
    /\ UNCHANGED <<sqlite_sequence, created>>

\* The whole call, nothing else running between its SELECT and its commit.
admin_update_scheduled_date(record_id, new_date, actor, reason) ==
    /\ MayStart
    /\ \A s \in Sessions : pc[s] = "idle"
    /\ LET old == SelectScheduledDate(scheduled_activities, record_id)
       IN  IF old = NoDate
           THEN ReturnFalse(Call("adminRescheduleDate", record_id, new_date,
                                 actor, reason, <<>>))
           ELSE RescheduleWrite(record_id, new_date, actor, reason, old)
    /\ UNCHANGED <<pc, loc>>

admin_delete_record(record_id, actor, reason) ==
    /\ MayStart
    /\ \A s \in Sessions : pc[s] = "idle"
    /\ LET old == SelectScheduledDate(scheduled_activities, record_id)
       IN  IF old = NoDate
           THEN ReturnFalse(Call("adminDelete", record_id, NoDate, actor, reason, <<>>))
           ELSE DeleteWrite(record_id, actor, reason, old)
    /\ UNCHANGED <<pc, loc>>

Next ==
    \/ \E records \in Batches : add_scheduled_records(records)
    \/ \E changes \in ChangeLists : update_records_status_and_notes(changes)
    \/ \E record_id \in 1..MaxId, new_date \in Dates, f \in AdminForms :
          admin_update_scheduled_date(record_id, new_date,
                                      ActorOrAdmin(f[1]), ReasonOrDash(f[2]))
    \/ \E record_id \in 1..MaxId, f \in AdminForms :
          admin_delete_record(record_id, ActorOrAdmin(f[1]), ReasonOrDash(f[2]))

Spec == Init /\ [][Next]_vars

(***************************************************************************)
(* The admin calls as the connection runs them: the SELECT is an           *)
(* autocommit read, the write transaction opens at the UPDATE / DELETE.    *)
(* Another session's transaction can commit between the two.               *)
(***************************************************************************)
RescheduleSelect(s, record_id, new_date, actor, reason) ==
    /\ pc[s] = "idle"
    /\ MayStart
    /\ LET old == SelectScheduledDate(scheduled_activities, record_id)
       IN  IF old = NoDate
           THEN /\ ReturnFalse(Call("adminRescheduleDate", record_id, new_date,
                                    actor, reason, <<>>))
                /\ UNCHANGED <<pc, loc>>
           ELSE /\ pc' = [pc EXCEPT ![s] = "reschedule"]
                /\ loc' = [loc EXCEPT ![s] =
                             [record_id |-> record_id, new_date |-> new_date,
                              actor |-> actor, reason |-> reason, old |-> old]]
                /\ UNCHANGED <<store, now, ret, last, admin_ok, created, df, report, access>>

RescheduleCommit(s) ==
    /\ pc[s] = "reschedule"
    /\ RescheduleWrite(loc[s].record_id, loc[s].new_date, loc[s].actor,
                       loc[s].reason, loc[s].old)
    /\ pc' = [pc EXCEPT ![s] = "idle"]
    /\ loc' = [loc EXCEPT ![s] = NoArgs]

DeleteSelect(s, record_id, actor, reason) ==
    /\ pc[s] = "idle"
    /\ MayStart
    /\ LET old == SelectScheduledDate(scheduled_activities, record_id)
       IN  IF old = NoDate
           THEN /\ ReturnFalse(Call("adminDelete", record_id, NoDate, actor,
                                    reason, <<>>))
                /\ UNCHANGED <<pc, loc>>
           ELSE /\ pc' = [pc EXCEPT ![s] = "delete"]
                /\ loc' = [loc EXCEPT ![s] =
                             [record_id |-> record_id, new_date |-> NoDate,
                              actor |-> actor, reason |-> reason, old |-> old]]
                /\ UNCHANGED <<store, now, ret, last, admin_ok, created, df, report, access>>

DeleteCommit(s) ==
    /\ pc[s] = "delete"
    /\ DeleteWrite(loc[s].record_id, loc[s].actor, loc[s].reason, loc[s].old)
    /\ pc' = [pc EXCEPT ![s] = "idle"]
    /\ loc' = [loc EXCEPT ![s] = NoArgs]

ConcNext ==
    \/ \E records \in Batches : add_scheduled_records(records)
    \/ \E changes \in ChangeLists : update_records_status_and_notes(changes)
    \/ \E s \in Sessions, record_id \in 1..MaxId, new_date \in Dates, f \in AdminForms :
          RescheduleSelect(s, record_id, new_date, ActorOrAdmin(f[1]), ReasonOrDash(f[2]))
    \/ \E s \in Sessions : RescheduleCommit(s)
    \/ \E s \in Sessions, record_id \in 1..MaxId, f \in AdminForms :
          DeleteSelect(s, record_id, ActorOrAdmin(f[1]), ReasonOrDash(f[2]))
    \/ \E s \in Sessions : DeleteCommit(s)

ConcSpec == Init /\ [][ConcNext]_vars

(***************************************************************************)
(* The application's admin tab behind the sidebar: a script run takes the  *)
(* role and the code from the sidebar, and the tab's two buttons are there *)
(* when is_admin holds.                                                    *)
(***************************************************************************)
AppInit ==
    /\ \E c \in Configs :
          access = [secrets_toml |-> c[1], env |-> c[2], role |-> "Especialista",
                    code |-> ""]
    /\ scheduled_activities = <<>>
    /\ sqlite_sequence = 0
    /\ audit_log = <<>>
    /\ now = 0
    /\ ret = "None"
    /\ last = Call("init_db", 0, NoDate, Null, Null, <<>>)
    /\ pc = [s \in Sessions |-> "idle"]
    /\ loc = [s \in Sessions |-> NoArgs]
    /\ admin_ok = 0
    /\ created = <<>>
    /\ df = <<>>
    /\ report = NoReport

sidebar(role, code) ==
    /\ access' = [access EXCEPT !.role = role, !.code = code]
    /\ UNCHANGED <<store, now, ret, last, pc, loc, admin_ok, created, df, report>>

\* app.py 264, 280-290: the button "Actualizar fecha (plazo)".
tab_admin_update(rid, nueva_fecha, actor_name, motivo) ==
    /\ is_admin(access)
    /\ admin_update_scheduled_date(rid, nueva_fecha, ActorOrAdmin(actor_name),
                                   ReasonOrDash(motivo))

\* app.py 264, 292-298: the button "Borrar registro".
tab_admin_delete(rid, actor_name, motivo) ==
    /\ is_admin(access)
    /\ admin_delete_record(rid, ActorOrAdmin(actor_name), ReasonOrDash(motivo))

\* The registration form with one date.
SingleDate == {FormRecords(<<"Ana", "Informe", "Documento", "", <<d>>>>) : d \in Dates}

AppNext ==
    \/ \E role \in Roles, code \in Codes : sidebar(role, code)
    \/ \E records \in SingleDate : add_scheduled_records(records)
    \/ \E rid \in 1..MaxId, nueva_fecha \in Dates, actor_name \in Actors,
          motivo \in Reasons :
          tab_admin_update(rid, nueva_fecha, actor_name, motivo)
    \/ \E rid \in 1..MaxId, actor_name \in Actors, motivo \in Reasons :
          tab_admin_delete(rid, actor_name, motivo)

AppSpec == AppInit /\ [][AppNext]_vars

(***************************************************************************)
(* The two reads, beside the calls that add, mark and remove records.      *)
(***************************************************************************)
ReadNext ==
    \/ \E records \in Batches : add_scheduled_records(records)
    \/ \E changes \in ChangeLists : update_records_status_and_notes(changes)
    \/ \E record_id \in 1..MaxId, actor \in Actors, reason \in Reasons :
          admin_delete_record(record_id, actor, reason)
    \/ \E q \in Asked : query_range(q)
    \/ \E q \in Exported : export_month_matrix_xlsx_bytes(q)

ReadSpec == Init /\ [][ReadNext]_vars

(***************************************************************************)
(* Properties.                                                             *)
(***************************************************************************)
\* A step in which a call completed.
CallCompleted(op) == now' = now + 1 /\ last'.op = op

Fields(e) == <<e.action, e.record_id, e.old_scheduled_date, e.new_scheduled_date,
               e.actor, e.reason>>

\* The step appended exactly one audit entry, with these fields.
AppendsOne(fields) ==
    /\ Len(audit_log') = Len(audit_log) + 1
    /\ SubSeq(audit_log', 1, Len(audit_log)) = audit_log
    /\ Fields(audit_log'[Len(audit_log')]) = fields

\* C1: with calls run one at a time, the audit log is as long as the number
\* of adminRescheduleDate / adminDelete calls that returned true.
C1_AuditLengthIsAdminSuccesses == Len(audit_log) = admin_ok

C1_Witness ==
    /\ admin_ok = 2
    /\ last.op = "adminDelete"
    /\ ret = "True"
    /\ \E k \in 1..Len(audit_log) : audit_log[k].action = "UPDATE_DATE"

\* C2: adminRescheduleDate(r, d1, actor, reason) on an existing r with date d0
\* returns true, every unfiltered range query covering d1 then shows r with
\* date d1, and the log gains exactly the entry
\* (UPDATE_DATE, r, d0, d1, actor, reason).
C2_RescheduleExisting ==
    [][\A r \in DOMAIN scheduled_activities :
         (CallCompleted("adminRescheduleDate") /\ last'.record_id = r) =>
            LET d0 == scheduled_activities[r].scheduled_date
                d1 == last'.new_date
            IN  /\ ret' = "True"
                /\ \A q \in Queries :
                     (q[1] <= d1 /\ d1 <= q[2] /\ q[3] = Null) =>
                        LET res == get_month_records(scheduled_activities', q[1], q[2], q[3])
                        IN  \E k \in 1..Len(res) :
                               res[k].id = r /\ res[k].scheduled_date = d1
                /\ AppendsOne(<<"UPDATE_DATE", r, d0, d1, last'.actor, last'.reason>>)
      ]_vars

C2_Witness ==
    /\ last.op = "adminRescheduleDate"
    /\ ret = "True"
    /\ last.record_id \in DOMAIN scheduled_activities
    /\ audit_log # <<>>
    /\ audit_log[Len(audit_log)].old_scheduled_date # last.new_date
    /\ scheduled_activities[last.record_id].scheduled_date = last.new_date

\* Ids whose deletion the audit log records.
DeletedIds == {audit_log[k].record_id :
                  k \in {j \in 1..Len(audit_log) : audit_log[j].action = "DELETE"}}

\* C3: adminDelete(r, actor, reason) on an existing r with date d0 returns
\* true and the log gains exactly the entry (DELETE, r, d0, no new date,
\* actor, reason); from then on r is in the result of no range query,
\* whatever the range and the filter.
C3_DeleteExisting ==
    /\ [][\A r \in DOMAIN scheduled_activities :
            (CallCompleted("adminDelete") /\ last'.record_id = r) =>
               /\ ret' = "True"
               /\ \A q \in Queries : r \notin QueryIds(scheduled_activities', q)
               /\ AppendsOne(<<"DELETE", r, scheduled_activities[r].scheduled_date,
                               NoDate, last'.actor, last'.reason>>)
        ]_vars
    /\ [](\A r \in DeletedIds : \A q \in Queries :
             r \notin QueryIds(scheduled_activities, q))

C3_Witness ==
    /\ DeletedIds # {}
    /\ scheduled_activities # <<>>
    /\ last.op = "createBatch"
    /\ ret = "None"
    /\ last.list # <<>>

\* C4: adminRescheduleDate and adminDelete on an id that names no current
\* record (never created, or deleted) return false, append no audit entry
\* and leave scheduled_activities as it was.
C4_AdminOnMissingId ==
    [][\A op \in AdminOps :
         (CallCompleted(op) /\ last'.record_id \notin DOMAIN scheduled_activities) =>
            /\ ret' = "False"
            /\ audit_log' = audit_log
            /\ scheduled_activities' = scheduled_activities
      ]_vars

C4_Witness ==
    /\ last.op = "adminRescheduleDate"
    /\ ret = "False"
    /\ last.record_id \in DeletedIds
    /\ Len(audit_log) = 1

\* C7: a record's scheduled_date changes only in the step of a successful
\* adminRescheduleDate on that id (so updateStatusAndNotes and createBatch
\* change the date of no existing record), and a record whose date differs
\* from the date it was created with has a reschedule in the audit log.
C7_DateChangesOnlyByReschedule ==
    /\ [][\A r \in DOMAIN scheduled_activities \cap DOMAIN scheduled_activities' :
            scheduled_activities'[r].scheduled_date # scheduled_activities[r].scheduled_date
               => /\ CallCompleted("adminRescheduleDate")
                  /\ last'.record_id = r
                  /\ ret' = "True"
        ]_vars
    /\ [][CallCompleted("updateStatusAndNotes") =>
            /\ DOMAIN scheduled_activities' = DOMAIN scheduled_activities
            /\ \A r \in DOMAIN scheduled_activities :
                  scheduled_activities'[r].scheduled_date =
                     scheduled_activities[r].scheduled_date
        ]_vars
    /\ [](\A r \in DOMAIN scheduled_activities :
             scheduled_activities[r].scheduled_date # created[r] =>
                \E k \in 1..Len(audit_log) :
                   /\ audit_log[k].action = "UPDATE_DATE"
                   /\ audit_log[k].record_id = r)

\* An update reached a stored record whose date is not the one the change
\* dict carries.
C7_Witness ==
    /\ last.op = "updateStatusAndNotes"
    /\ \E k \in 1..Len(last.list) :
          /\ last.list[k].id \in DOMAIN scheduled_activities
          /\ scheduled_activities[last.list[k].id].updated_by = "ana"
          /\ scheduled_activities[last.list[k].id].status = last.list[k].status
          /\ scheduled_activities[last.list[k].id].scheduled_date
                # last.list[k].scheduled_date

\* C8: the audit log is append-only: in every step the log before is a
\* prefix of the log after.
C8_AuditAppendOnly == [][IsPrefix(audit_log, audit_log')]_vars

C8_Witness ==
    /\ Len(audit_log) = 2
    /\ audit_log[1].record_id = audit_log[2].record_id

BatchDates(b) == {b[k].scheduled_date : k \in 1..Len(b)}

Failing(b) == \E k \in 1..Len(b) : RowFails(b[k])

\* C9: createBatch of a valid non-empty batch B makes the range query over
\* B's dates return exactly |B| more rows; the new rows carry |B| ids that
\* were in the store neither before nor twice, and the rows already there
\* stay; createBatch of the empty batch changes nothing.
C9_CreateBatchAddsRows ==
    [][CallCompleted("createBatch") =>
         LET B == last'.list
             before == scheduled_activities
             after == scheduled_activities'
         IN  /\ (B # <<>> /\ ~Failing(B)) =>
                   LET lo == SetMin(BatchDates(B))
                       hi == SetMax(BatchDates(B))
                       old == get_month_records(before, lo, hi, Null)
                       new == get_month_records(after, lo, hi, Null)
                   IN  /\ ret' = "None"
                       /\ Len(new) = Len(old) + Len(B)
                       /\ \A j, k \in 1..Len(new) : new[j].id = new[k].id => j = k
                       /\ Cardinality(QueryIds(after, <<lo, hi, Null>>)
                                      \ DOMAIN before) = Len(B)
                       /\ \A r \in DOMAIN before : r \in DOMAIN after /\ after[r] = before[r]
             /\ B = <<>> => store' = store
      ]_vars

C9_Witness ==
    /\ last.op = "createBatch"
    /\ Len(last.list) = 2
    /\ ret = "None"
    /\ Cardinality(DOMAIN scheduled_activities) = 2
    /\ sqlite_sequence = 2

\* C10: createBatch is all-or-nothing: when a record of the batch fails,
\* the store is what it was before the call and every range query answers
\* as before, the rows ahead of the failing one included.
C10_CreateBatchAllOrNothing ==
    [][(CallCompleted("createBatch") /\ Failing(last'.list)) =>
         /\ ret' = "StorageError"
         /\ store' = store
         /\ \A q \in Queries :
               get_month_records(scheduled_activities', q[1], q[2], q[3]) =
                  get_month_records(scheduled_activities, q[1], q[2], q[3])
      ]_vars

\* A batch whose second record fails after its first was inserted.
C10_Witness ==
    /\ last.op = "createBatch"
    /\ ret = "StorageError"
    /\ Len(last.list) = 2
    /\ ~RowFails(last.list[1])
    /\ RowFails(last.list[2])
    /\ scheduled_activities # <<>>

\* The step changed a stored date or removed a row.
Mutates ==
    \E r \in DOMAIN scheduled_activities :
       \/ r \notin DOMAIN scheduled_activities'
       \/ scheduled_activities'[r].scheduled_date # scheduled_activities[r].scheduled_date

\* C5: with admin calls of several sessions interleaved (each a SELECT step
\* and a write transaction), every commit pairs mutation and audit entry: a
\* step appends an audit entry only for a row its UPDATE / DELETE found, and
\* then the call returns true; a reschedule or delete whose row is gone at
\* its write appends nothing and does not return true.
C5_AuditPairsMutation ==
    [][/\ audit_log' # audit_log =>
            audit_log'[Len(audit_log')].record_id \in DOMAIN scheduled_activities
       /\ \A s \in Sessions :
            (/\ pc[s] # "idle"
             /\ pc'[s] = "idle"
             /\ loc[s].record_id \notin DOMAIN scheduled_activities)
               => audit_log' = audit_log /\ ret' # "True"
       /\ Mutates => Len(audit_log') = Len(audit_log) + 1
      ]_vars

\* C6: with two adminRescheduleDate calls on one record interleaved, the old
\* date of each appended reschedule entry is the record's committed date
\* just before that call's UPDATE.
C6_OldDateIsCommittedDate ==
    [][\A s \in Sessions :
         (/\ pc[s] = "reschedule"
          /\ pc'[s] = "idle"
          /\ loc[s].record_id \in DOMAIN scheduled_activities)
            => audit_log'[Len(audit_log')].old_scheduled_date =
                  scheduled_activities[loc[s].record_id].scheduled_date
      ]_vars

EmptyField(r) == r.specialist = "" \/ r.activity = "" \/ r.unit = ""

\* C11: createBatch fails and inserts no row when a record of the batch has
\* an empty specialist, activity or unit, so every stored record has all
\* three non-empty.
C11_EmptyFieldsRejected ==
    /\ [][(CallCompleted("createBatch")
             /\ \E k \in 1..Len(last'.list) : EmptyField(last'.list[k]))
            => ret' = "StorageError" /\ store' = store
        ]_vars
    /\ [](\A r \in DOMAIN scheduled_activities : ~EmptyField(scheduled_activities[r]))

\* A step in which a read returned.
ReadReturned(op) == now' = now /\ last'.op = op /\ (last' # last \/ df' # df)

\* (date, specialist, activity) of x is not after that of y.
KeyNotAfter(x, y) ==
    \/ x.scheduled_date < y.scheduled_date
    \/ /\ x.scheduled_date = y.scheduled_date
       /\ \/ Rank(x.specialist) < Rank(y.specialist)
          \/ /\ x.specialist = y.specialist
             /\ Rank(x.activity) <= Rank(y.activity)

\* C12: queryRange(from, to, filter) returns each record whose date is in
\* [from, to], both ends included, and whose specialist is the filter when
\* one is given, once each and no other, in ascending (scheduled_date,
\* specialist, activity) order; a range with no match, from > to included,
\* gives the empty result; and the call changes neither table.  Stated of
\* every query the store could be asked when a queryRange call returns.
C12_QueryRangeExact ==
    /\ [](last.op = "queryRange" => \A q \in Queries :
            LET res == get_month_records(scheduled_activities, q[1], q[2], q[3])
                hits == {r \in DOMAIN scheduled_activities :
                           /\ q[1] <= scheduled_activities[r].scheduled_date
                           /\ scheduled_activities[r].scheduled_date <= q[2]
                           /\ q[3] # Null => scheduled_activities[r].specialist = q[3]}
            IN  /\ {res[k].id : k \in 1..Len(res)} = hits
                /\ Len(res) = Cardinality(hits)
                /\ \A k \in 1..Len(res) :
                      /\ res[k].scheduled_date = scheduled_activities[res[k].id].scheduled_date
                      /\ res[k].specialist = scheduled_activities[res[k].id].specialist
                      /\ res[k].status = scheduled_activities[res[k].id].status
                /\ \A j, k \in 1..Len(res) : j < k => KeyNotAfter(res[j], res[k])
                /\ q[1] > q[2] => res = <<>>)
    /\ [][ReadReturned("queryRange") =>
            /\ store' = store
            /\ LET q == last'.list[1]
               IN  df' = get_month_records(scheduled_activities, q[1], q[2], q[3])
        ]_vars

\* A filtered query that left a row out and put a later id first.
C12_Witness ==
    /\ last.op = "queryRange"
    /\ Len(df) = 2
    /\ df[1].id > df[2].id
    /\ df[1].scheduled_date < df[2].scheduled_date
    /\ \E r \in DOMAIN scheduled_activities : scheduled_activities[r].specialist = "Luis"

\* C13: record ids are unique and handed out in increasing order over the
\* whole history: each record a createBatch adds has an id greater than
\* every id a committed call assigned before, the ids of one batch differ,
\* no step changes which id a row sits under, and the id of a deleted
\* record names no later record.
C13_IdsMonotonic ==
    /\ [][CallCompleted("createBatch") =>
            LET new == DOMAIN scheduled_activities' \ DOMAIN scheduled_activities
            IN  /\ \A r \in new : \A old \in DOMAIN created : r > old
                /\ ret' = "None" => Cardinality(new) = Len(last'.list)
                /\ \A r \in DOMAIN scheduled_activities :
                      r \in DOMAIN scheduled_activities'
                         /\ scheduled_activities'[r] = scheduled_activities[r]
        ]_vars
    /\ [][~CallCompleted("createBatch") =>
            DOMAIN scheduled_activities' \subseteq DOMAIN scheduled_activities]_vars
    /\ [](DeletedIds \cap DOMAIN scheduled_activities = {})
    /\ [](DOMAIN scheduled_activities \subseteq DOMAIN created)

\* A record created after the record with the largest id was deleted.
C13_Witness ==
    /\ last.op = "createBatch"
    /\ ret = "None"
    /\ DeletedIds # {}
    /\ DOMAIN scheduled_activities # {}
    /\ \A r \in DOMAIN scheduled_activities : \A x \in DeletedIds : x < r
    /\ \A r \in DOMAIN scheduled_activities : scheduled_activities[r].created_at = now

\* C14: in every reachable state the status of every stored record is the
\* empty string, the completed mark or the missed mark.
C14_StatusIsToken ==
    \A r \in DOMAIN scheduled_activities : scheduled_activities[r].status \in StatusTokens

\* C15: an updateStatusAndNotes call with a change whose id names no stored
\* record fails with a not-found error; none returns normally having
\* skipped the change.
C15_MissingIdFails ==
    [][(CallCompleted("updateStatusAndNotes")
          /\ \E k \in 1..Len(last'.list) :
                last'.list[k].id \notin DOMAIN scheduled_activities)
         => ret' = "NotFoundError"
      ]_vars

\* C16: every audit entry has a non-empty actor and a non-empty reason: the
\* admin tab hands a blank name on as ADMIN and a blank reason as the dash.
C16_AuditActorAndReason ==
    \A k \in 1..Len(audit_log) :
       /\ audit_log[k].actor \notin {"", " ", Null}
       /\ audit_log[k].reason \notin {"", " ", Null}

\* An entry written from a form whose name and reason were blank.
C16_Witness ==
    /\ audit_log # <<>>
    /\ audit_log[Len(audit_log)].actor = "ADMIN"
    /\ audit_log[Len(audit_log)].reason = Dash
    /\ last.op \in AdminOps
    /\ ret = "True"

\* The rows of the frame that have this group on this day.
Hits(frame, g, d) ==
    {k \in 1..Len(frame) : Group(frame[k]) = g /\ frame[k].scheduled_date = d}

\* C17: in the exported matrix the cell of a group's row under day d holds
\* the stored status of a record of that group scheduled on day d, and is
\* blank when the group has no record on that day.
C17_CellIsStoredStatus ==
    last.op = "exportMatrix" =>
       \A i \in 1..Len(report.rows) : \A d \in 1..Len(report.days) :
          LET row == report.rows[i]
              hits == Hits(df, <<row.specialist, row.activity, row.unit>>, report.days[d])
          IN  IF hits = {} THEN row.cells[d] = ""
              ELSE \E k \in hits :
                     /\ row.cells[d] = df[k].status
                     /\ row.cells[d] = scheduled_activities[df[k].id].status

\* C18: when several records have the same group and day, the cell shows
\* the status of the first of them in queryRange order.
C18_FirstDuplicateWins ==
    last.op = "exportMatrix" =>
       \A i \in 1..Len(report.rows) : \A d \in 1..Len(report.days) :
          LET row == report.rows[i]
              hits == Hits(df, <<row.specialist, row.activity, row.unit>>, report.days[d])
          IN  Cardinality(hits) > 1 => row.cells[d] = df[SetMin(hits)].status

\* The stored records an export over q = (month_first, month_last, filter)
\* is about.
Matching(q) ==
    {r \in DOMAIN scheduled_activities :
        /\ q[1] <= scheduled_activities[r].scheduled_date
        /\ scheduled_activities[r].scheduled_date <= q[2]
        /\ q[3] # Null => scheduled_activities[r].specialist = q[3]}

\* C19: when a record matches, the grid has one data row per distinct
\* (specialist, activity, unit) among the matching records, none twice and
\* none missing, and after the three leading columns exactly N day columns
\* labelled 1..N, N the day number of monthLast.
C19_RowsAndDayColumns ==
    (last.op = "exportMatrix" /\ Matching(last.list[1]) # {}) =>
       LET q == last.list[1]
           N == q[2]
           triples == {Group(scheduled_activities[r]) : r \in Matching(q)}
           shown == [i \in 1..Len(report.rows) |->
                       <<report.rows[i].specialist, report.rows[i].activity,
                         report.rows[i].unit>>]
       IN  /\ {shown[i] : i \in 1..Len(shown)} = triples
           /\ Len(shown) = Cardinality(triples)
           /\ Len(report.labels) = 3
           /\ report.days = [d \in 1..N |-> d]
           /\ \A i \in 1..Len(report.rows) : Len(report.rows[i].cells) = N

\* Two groups, one of them with a record on each of two days, and a month
\* with a day nothing is scheduled on.
C19_Witness ==
    /\ last.op = "exportMatrix"
    /\ Len(report.rows) = 2
    /\ Len(df) = 3
    /\ Len(report.days) = MaxDate
    /\ \E d \in 1..MaxDate : \A k \in 1..Len(df) : df[k].scheduled_date # d

\* C20: an export that no record matches gives the single placeholder cell
\* and neither header row nor data rows; the grid (title, header row, data
\* rows) is given exactly when at least one record matches.
C20_PlaceholderIffNoMatch ==
    last.op = "exportMatrix" =>
       IF Matching(last.list[1]) = {}
       THEN report = [A1 |-> NoData, labels |-> <<>>, days |-> <<>>, rows |-> <<>>]
       ELSE /\ report.A1 = Title
            /\ report.labels = Headers
            /\ report.days # <<>>
            /\ report.rows # <<>>

\* The store has records, none of them of the specialist asked for.
C20_Witness ==
    /\ last.op = "exportMatrix"
    /\ last.list[1][3] = "Luis"
    /\ scheduled_activities # <<>>
    /\ report.A1 = NoData
    /\ report.rows = <<>>

\* The value a result row has in a column, Null when the result has no
\* such column.
Column(row, name) == IF name \in DOMAIN row THEN row[name] ELSE Null

\* C21: every record a createBatch wrote comes back from the next
\* queryRange over its date with each field that was written (specialist,
\* activity, unit, scheduled_date, status, notes, created_by) as written.
C21_RoundTrip ==
    [][(CallCompleted("createBatch") /\ ret' = "None") =>
         \A k \in 1..Len(last'.list) :
            LET w == last'.list[k]
                res == get_month_records(scheduled_activities', w.scheduled_date,
                                         w.scheduled_date, Null)
            IN  \E j \in 1..Len(res) :
                   /\ res[j].id = sqlite_sequence + k
                   /\ \A f \in {"specialist", "activity", "unit", "scheduled_date",
                                 "status", "notes", "created_by"} :
                         Column(res[j], f) = w[f]
      ]_vars

\* What a record is created with and keeps.
Birth(row) == <<row.created_at, row.created_by, row.specialist, row.activity, row.unit>>

\* C22: a record keeps its id, created_at, created_by, specialist, activity
\* and unit from creation until it is deleted: no step changes any of them,
\* in particular no updateStatusAndNotes and no adminRescheduleDate.
C22_CreationFieldsKept ==
    [][\A r \in DOMAIN scheduled_activities \cap DOMAIN scheduled_activities' :
         Birth(scheduled_activities'[r]) = Birth(scheduled_activities[r])
      ]_vars

\* A record that was marked by someone other than its creator and then
\* rescheduled.
C22_Witness ==
    /\ last.op = "adminRescheduleDate"
    /\ ret = "True"
    /\ last.record_id \in DOMAIN scheduled_activities
    /\ LET row == scheduled_activities[last.record_id]
       IN  /\ row.status # ""
           /\ row.scheduled_date # created[last.record_id]
           /\ row.updated_by # row.created_by
           /\ row.updated_at > row.created_at

\* The changes of a list that name record r.
Targeting(list, r) == {k \in 1..Len(list) : list[k].id = r}

Stamp(row) == <<row.updated_at, row.updated_by>>

SameBut(a, b, columns) == \A f \in DOMAIN a \ columns : a[f] = b[f]

\* C24: a mutation aimed at record r changes no other record: an
\* updateStatusAndNotes change writes only r's status, notes, updated_at and
\* updated_by, adminRescheduleDate(r) only r's scheduled_date, updated_at
\* and updated_by, and adminDelete(r) removes r and nothing else.
C24_OtherRecordsUntouched ==
    /\ [][CallCompleted("updateStatusAndNotes") =>
            /\ DOMAIN scheduled_activities' = DOMAIN scheduled_activities
            /\ \A r \in DOMAIN scheduled_activities :
                  SameBut(scheduled_activities[r], scheduled_activities'[r],
                          IF Targeting(last'.list, r) = {} THEN {}
                          ELSE {"status", "notes", "updated_at", "updated_by"})
        ]_vars
    /\ [][CallCompleted("adminRescheduleDate") =>
            /\ DOMAIN scheduled_activities' = DOMAIN scheduled_activities
            /\ \A r \in DOMAIN scheduled_activities :
                  SameBut(scheduled_activities[r], scheduled_activities'[r],
                          IF r # last'.record_id THEN {}
                          ELSE {"scheduled_date", "updated_at", "updated_by"})
        ]_vars
    /\ [][CallCompleted("adminDelete") =>
            /\ DOMAIN scheduled_activities' =
                  DOMAIN scheduled_activities \ {last'.record_id}
            /\ \A r \in DOMAIN scheduled_activities' :
                  scheduled_activities'[r] = scheduled_activities[r]
        ]_vars

\* A record deleted beside one that had been marked and stays as it was.
C24_Witness ==
    /\ last.op = "adminDelete"
    /\ ret = "True"
    /\ \E r \in DOMAIN scheduled_activities :
          /\ r > last.record_id
          /\ scheduled_activities[r].status # ""
          /\ scheduled_activities[r].updated_by = "ana"

\* The audit entries of record r, oldest first.
EntriesOf(r) == SelectSeq(audit_log, LAMBDA e : e.record_id = r)

\* C25: with calls run one at a time the audit log tells each record's
\* dates: the old date of every entry of an id is the new date of the
\* id's entry before it, the creation date for the first; a stored record
\* has the new date of its latest entry, its creation date when it has
\* none; and a delete entry is the last entry of its id, whose record is
\* gone.
C25_AuditReconstructsDates ==
    /\ \A k \in 1..Len(audit_log) : audit_log[k].record_id \in DOMAIN created
    /\ \A r \in DOMAIN created :
          LET es == EntriesOf(r)
          IN  /\ \A k \in 1..Len(es) :
                    /\ es[k].old_scheduled_date =
                          IF k = 1 THEN created[r] ELSE es[k - 1].new_scheduled_date
                    /\ es[k].action = "DELETE" =>
                          k = Len(es) /\ r \notin DOMAIN scheduled_activities
                    /\ es[k].action = "UPDATE_DATE" => es[k].new_scheduled_date # NoDate
              /\ r \in DOMAIN scheduled_activities =>
                    scheduled_activities[r].scheduled_date =
                       IF es = <<>> THEN created[r] ELSE es[Len(es)].new_scheduled_date
              /\ r \notin DOMAIN scheduled_activities =>
                    es # <<>> /\ es[Len(es)].action = "DELETE"

\* A record moved to another date and back, beside a record on another
\* date.
C25_Witness ==
    /\ Len(audit_log) = 2
    /\ audit_log[1].action = "UPDATE_DATE"
    /\ audit_log[2].action = "UPDATE_DATE"
    /\ audit_log[1].record_id = audit_log[2].record_id
    /\ audit_log[1].old_scheduled_date # audit_log[1].new_scheduled_date
    /\ audit_log[2].old_scheduled_date = audit_log[1].new_scheduled_date
    /\ audit_log[2].new_scheduled_date = audit_log[1].old_scheduled_date
    /\ Cardinality(DOMAIN scheduled_activities) = 2

\* The admin secret a configuration amounts to, Null when there is none.
Configured(secrets_toml, env) ==
    IF secrets_toml \notin {Null, ""} THEN secrets_toml
    ELSE IF env \notin {Null, ""} THEN env
    ELSE Null

\* No role and code make an admin of a session where no secret is
\* configured, and no code makes one of a Specialist.
NoGrantWithoutSecretOrRole ==
    \A c \in Configs, role \in Roles, code \in Codes :
       (Configured(c[1], c[2]) = Null \/ role = "Especialista") =>
          ~is_admin([secrets_toml |-> c[1], env |-> c[2], role |-> role, code |-> code])

\* C26 as stated: adminRescheduleDate and adminDelete are called only in a
\* session whose role is Administrador and whose entered code is the
\* configured secret; no code grants admin where no secret is configured;
\* a Specialist never reaches either call.
C26_AdminOnlyWithSecret ==
    /\ [][\A op \in AdminOps : CallCompleted(op) =>
            /\ access.role = "Administrador"
            /\ Configured(access.secrets_toml, access.env) # Null
            /\ access.code = Configured(access.secrets_toml, access.env)
        ]_vars
    /\ []NoGrantWithoutSecretOrRole

\* C26, amended: the entered code is compared after its surrounding blanks
\* are removed, so the calls are made only in a session whose role is
\* Administrador and whose entered code, stripped, is the configured secret;
\* the rest as stated.
C26_AdminOnlyWithStrippedCode ==
    /\ [][\A op \in AdminOps : CallCompleted(op) =>
            /\ access.role = "Administrador"
            /\ Configured(access.secrets_toml, access.env) # Null
            /\ Strip(access.code) = Configured(access.secrets_toml, access.env)
        ]_vars
    /\ []NoGrantWithoutSecretOrRole

\* A delete made from a session that typed the code with a blank behind it,
\* the secret coming from the environment.
C26_Witness ==
    /\ last.op = "adminDelete"
    /\ ret = "True"
    /\ access.role = "Administrador"
    /\ access.code = "s3cret "
    /\ access.secrets_toml = ""
    /\ access.env = "s3cret"

=============================================================================
